---- MODULE Spec2Model ----
(***************************************************************************)
(* Model of the terrain3d frontend: the useTerrain hook (load / export     *)
(* runs, progress timers), the App handlers that drive it, the custom-area *)
(* selector, and the preview mesh built by TerrainViewer.                  *)
(*                                                                         *)
(* Optional values (T | null) are sequences: <<>> is null, <<v>> is v.     *)
(* Real numbers are exact rationals scaled to integers; every scale is     *)
(* named where it is used.                                                 *)
(***************************************************************************)
EXTENDS Integers, Sequences, FiniteSets, TLC

VARIABLES
    state,        \* useTerrain: {terrain, isLoading, isExporting, error, progress}
    settings,     \* useTerrain: TerrainSettings
    runs,         \* one entry per loadTerrain invocation: "pending" | "resolved" | "rejected"
    timers,       \* live setInterval timers: run index -> [currentBatch, totalBatches]
    exports,      \* one entry per downloadSTL run: [status, timeout, terrain_id]
    lastEvent,    \* the handler that ran last, with the request it issued
    regions,      \* useRegions: [regions, isLoading, error]
    app,          \* App: [selectedRegion, customAreaName]
    area,         \* CustomAreaSelector + DrawRectangle state
    viewer,       \* TerrainViewer: its props [heightmap, showBase, baseThickness], and mounted
    mesh,         \* geometries memoised by TerrainMesh and SideWalls
    panel         \* what ExportPanel displays: [triangles, fileSize, printTime]

vars == <<state, settings, runs, timers, exports, lastEvent, regions, app, area, viewer, mesh,
          panel>>

hookVars == <<state, settings, runs, timers, exports>>
appVars == <<regions, app, area>>
meshVars == <<viewer, mesh, panel>>

-----------------------------------------------------------------------------
(* Bounds of the model *)

MaxRuns == 2          \* loadTerrain invocations per behaviour
MaxExports == 2       \* downloadSTL runs per behaviour
MaxTicks == 2          \* firings modelled per progress interval
MaxRows == 3           \* rows of a modelled heightmap
MaxCols == 3           \* columns of a modelled heightmap
MaxElevation == 1      \* elevation samples are drawn from 0..MaxElevation
MaxScale == 3          \* rescaled samples stay within 0..MaxScale * MaxElevation

-----------------------------------------------------------------------------
(* Optional values *)

Null == <<>>
Some(v) == <<v>>
IsNull(o) == o = <<>>
Val(o) == o[1]

Max2(a, b) == IF a >= b THEN a ELSE b
Min2(a, b) == IF a <= b THEN a ELSE b

(* Math.ceil(a / b) for a >= 0, b > 0 *)
CeilDiv(a, b) == (a + b - 1) \div b

-----------------------------------------------------------------------------
(* Inputs *)

(* BBox: degrees scaled by LngDen (see the area selector below) are used   *)
(* only there; the bounding boxes of the region catalogue are plain.       *)
BBoxOf(s, n, w, e) == [lat_min |-> s, lat_max |-> n, lon_min |-> w, lon_max |-> e]

(* the region catalogue returned by getRegions *)
RegionCatalogue ==
    { [id |-> "mont-blanc", name |-> "Mont Blanc", bbox |-> BBoxOf(45, 46, 6, 7)],
      [id |-> "verdon", name |-> "Gorges du Verdon", bbox |-> BBoxOf(43, 44, 6, 7)] }

(* the resolution slider of Controls: min 64, max 256, step 32 *)
AllowedResolutions == {64, 96, 128, 160, 192, 224, 256}

(* resolutions a caller of updateSettings is modelled to pass *)
HookResolutions == {16, 128}

(* bounding boxes a caller of loadTerrain is modelled to pass; the second  *)
(* one is malformed (lat_min = lat_max, lon_min > lon_max)                 *)
HookBBoxes == { BBoxOf(44, 45, 5, 6), BBoxOf(44, 44, 6, 5) }

WellFormedBBox(b) == b.lat_min < b.lat_max /\ b.lon_min < b.lon_max

CustomArg(b) == [bbox |-> b, name |-> "Zone personnalisee"]

HookArgs ==
    { r \in RegionCatalogue : r.id = "mont-blanc" } \cup { CustomArg(b) : b \in HookBBoxes }

(* what a rejected promise can carry: an Error with a message, or a value  *)
(* that is not an Error                                                    *)
RejectionValues ==
    { [isError |-> TRUE, message |-> "Request failed"],
      [isError |-> FALSE, message |-> "" ] }

-----------------------------------------------------------------------------
(* useTerrain *)

InitialState ==
    [terrain |-> Null, isLoading |-> FALSE, isExporting |-> FALSE,
     error |-> Null, progress |-> Null]

(* heightExaggeration, scaleXY, scaleZ in tenths; baseThickness in mm *)
InitialSettings ==
    [resolution |-> 128, heightExaggeration |-> 15, scaleXY |-> 10,
     scaleZ |-> 15, addBase |-> TRUE, baseThickness |-> 5]

BatchSize == 500
MaxFetchResolution == 64

(* loadTerrain: totalBatches *)
TotalBatchesUnclamped(resolution) ==
    LET totalPoints == resolution * resolution
    IN CeilDiv(totalPoints, BatchSize)

TotalBatches(resolution) ==
    LET fetchResolution == Min2(resolution, MaxFetchResolution)
        totalPoints == fetchResolution * fetchResolution
    IN CeilDiv(totalPoints, BatchSize)

(* BuildRequest as it would be if the region branch also copied the bbox *)
BuildRequestCopyingBBox(regionOrBbox, s) ==
    IF "id" \in DOMAIN regionOrBbox
    THEN [region |-> regionOrBbox.id,
          bbox |-> regionOrBbox.bbox,
          resolution |-> s.resolution,
          height_exaggeration |-> s.heightExaggeration,
          data_source |-> "srtm"]
    ELSE [bbox |-> regionOrBbox.bbox,
          resolution |-> s.resolution,
          height_exaggeration |-> s.heightExaggeration,
          data_source |-> "srtm"]

(* loadTerrain: the request handed to generateTerrain *)
BuildRequest(regionOrBbox, s) ==
    LET isRegion == "id" \in DOMAIN regionOrBbox
    IN IF isRegion
       THEN [region |-> regionOrBbox.id,
             resolution |-> s.resolution,
             height_exaggeration |-> s.heightExaggeration,
             data_source |-> "srtm"]
       ELSE [bbox |-> regionOrBbox.bbox,
             resolution |-> s.resolution,
             height_exaggeration |-> s.heightExaggeration,
             data_source |-> "srtm"]

(* ErrorMessage as it would be if the Error's own message were dropped *)
ErrorMessageAlwaysFallback(err, fallback) == fallback

(* err instanceof Error ? err.message : fallback *)
ErrorMessage(err, fallback) == IF err.isError THEN err.message ELSE fallback

(* the response of the run-th generateTerrain call *)
TerrainResponse(run) == [id |-> run]

PendingRuns == { r \in DOMAIN runs : runs[r] = "pending" }

(* the handler that ran last: its kind, the run it belongs to (0: none),  *)
(* the value it was handed and the request it sent out                    *)
Event(kind, run, input, request) ==
    [kind |-> kind, run |-> run, input |-> input, request |-> request]

(* loadTerrain, up to the await: first setState, setInterval, request *)
LoadTerrain(regionOrBbox) ==
    /\ Len(runs) < MaxRuns
    /\ LET totalBatches == TotalBatches(settings.resolution)
           run == Len(runs) + 1
       IN /\ state' = [state EXCEPT
                         !.isLoading = TRUE,
                         !.error = Null,
                         !.progress = Some([current |-> 0, total |-> totalBatches,
                                            message |-> "Connexion au serveur d'elevation..."])]
          /\ timers' = [r \in DOMAIN timers \cup {run} |->
                          IF r = run THEN [currentBatch |-> 0, totalBatches |-> totalBatches]
                          ELSE timers[r]]
          /\ runs' = Append(runs, "pending")
          /\ lastEvent' = Event("loadTerrain", run, Some(regionOrBbox),
                                Some(BuildRequest(regionOrBbox, settings)))
    /\ UNCHANGED <<settings, exports>>

ProgressTickUnguarded(run) ==
    /\ run \in DOMAIN timers
    /\ timers[run].currentBatch < MaxTicks
    /\ LET currentBatch == timers[run].currentBatch + 1
           totalBatches == timers[run].totalBatches
       IN /\ timers' = [timers EXCEPT ![run].currentBatch = currentBatch]
          /\ state' = [state EXCEPT
                         !.progress = Some([current |-> currentBatch, total |-> totalBatches,
                                            message |-> "Telechargement des donnees SRTM..."])]
          /\ lastEvent' = Event("progressTick", run, Null, Null)
    /\ UNCHANGED <<settings, runs, exports>>

(* one firing of the run's setInterval callback *)
ProgressTick(run) ==
    /\ run \in DOMAIN timers
    /\ timers[run].currentBatch < MaxTicks
    /\ LET currentBatch == timers[run].currentBatch + 1
           totalBatches == timers[run].totalBatches
       IN /\ timers' = [timers EXCEPT ![run].currentBatch = currentBatch]
          /\ IF currentBatch <= totalBatches
             THEN /\ state' = [state EXCEPT
                                 !.progress = Some([current |-> currentBatch, total |-> totalBatches,
                                                    message |-> "Telechargement des donnees SRTM..."])]
                  /\ lastEvent' = Event("progressTick", run, Null, Null)
             ELSE /\ state' = state
                  /\ lastEvent' = Event("idleTick", run, Null, Null)
    /\ UNCHANGED <<settings, runs, exports>>

ClearInterval(run) == [r \in DOMAIN timers \ {run} |-> timers[r]]

(* generateTerrain resolves: clearInterval, setState with the terrain *)
LoadResolved(run) ==
    /\ run \in PendingRuns
    /\ timers' = ClearInterval(run)
    /\ state' = [state EXCEPT
                   !.terrain = Some(TerrainResponse(run)),
                   !.isLoading = FALSE,
                   !.progress = Null]
    /\ runs' = [runs EXCEPT ![run] = "resolved"]
    /\ lastEvent' = Event("loadResolved", run, Null, Null)
    /\ UNCHANGED <<settings, exports>>

LoadRejectedKeepingTimer(run, err) ==
    /\ run \in PendingRuns
    /\ timers' = timers
    /\ state' = [state EXCEPT
                   !.isLoading = FALSE,
                   !.progress = Null,
                   !.error = Some(ErrorMessage(err, "Failed to load terrain"))]
    /\ runs' = [runs EXCEPT ![run] = "rejected"]
    /\ lastEvent' = Event("loadRejected", run, Some(err), Null)
    /\ UNCHANGED <<settings, exports>>

(* generateTerrain rejects: clearInterval, setState with the message *)
LoadRejected(run, err) ==
    /\ run \in PendingRuns
    /\ timers' = ClearInterval(run)
    /\ state' = [state EXCEPT
                   !.isLoading = FALSE,
                   !.progress = Null,
                   !.error = Some(ErrorMessage(err, "Failed to load terrain"))]
    /\ runs' = [runs EXCEPT ![run] = "rejected"]
    /\ lastEvent' = Event("loadRejected", run, Some(err), Null)
    /\ UNCHANGED <<settings, exports>>

HasTerrain(s) == ~IsNull(s.terrain)

(* GuardedReturn as it would be if the missing terrain were reported *)
GuardedReturnReportingError ==
    /\ state' = [state EXCEPT !.error = Some("Failed to export STL")]
    /\ UNCHANGED exports
    /\ lastEvent' = Event("downloadSTL", 0, Null, Null)

(* downloadSTL: `if (!state.terrain) return;` *)
GuardedReturn ==
    /\ UNCHANGED <<state, exports>>
    /\ lastEvent' = Event("downloadSTL", 0, Null, Null)

(* downloadSTL: the request handed to exportSTL *)
BuildExportRequest(terrain, s) ==
    [terrain_id |-> terrain.id,
     resolution |-> s.resolution,
     scale_xy |-> s.scaleXY,
     scale_z |-> s.scaleZ,
     add_base |-> s.addBase,
     base_thickness |-> s.baseThickness]

PendingExports == { e \in DOMAIN exports : exports[e].status = "pending" }

(* downloadSTL past the guard, up to the await: setState, setTimeout, request *)
StartExport ==
    /\ Len(exports) < MaxExports
    /\ state' = [state EXCEPT
                   !.isExporting = TRUE,
                   !.error = Null,
                   !.progress = Some([current |-> 0, total |-> 2,
                                      message |-> "Generation du modele 3D..."])]
    /\ exports' = Append(exports, [status |-> "pending", timeout |-> TRUE,
                                   terrain_id |-> Val(state.terrain).id])
    /\ lastEvent' = Event("downloadSTL", Len(exports) + 1, Null,
                          Some(BuildExportRequest(Val(state.terrain), settings)))

DownloadSTL ==
    /\ IF ~HasTerrain(state) THEN GuardedReturn ELSE StartExport
    /\ UNCHANGED <<settings, runs, timers>>

(* the setTimeout(..., 500) callback of an export; it is never cancelled *)
ExportTimeout(e) ==
    /\ e \in DOMAIN exports
    /\ exports[e].timeout
    /\ exports' = [exports EXCEPT ![e].timeout = FALSE]
    /\ state' = [state EXCEPT
                   !.progress = Some([current |-> 1, total |-> 2,
                                      message |-> "Creation du mesh watertight..."])]
    /\ lastEvent' = Event("exportTimeout", e, Null, Null)
    /\ UNCHANGED <<settings, runs, timers>>

ExportResolvedKeepingProgress(e) ==
    /\ e \in PendingExports
    /\ exports' = [exports EXCEPT ![e].status = "resolved"]
    /\ state' = [state EXCEPT !.isExporting = FALSE]
    /\ lastEvent' = Event("exportResolved", e, Null, Null)
    /\ UNCHANGED <<settings, runs, timers>>

(* exportSTL resolves: the blob is handed to the browser, then setState *)
ExportResolved(e) ==
    /\ e \in PendingExports
    /\ exports' = [exports EXCEPT ![e].status = "resolved"]
    /\ state' = [state EXCEPT !.isExporting = FALSE, !.progress = Null]
    /\ lastEvent' = Event("exportResolved", e, Null, Null)
    /\ UNCHANGED <<settings, runs, timers>>

(* exportSTL rejects *)
ExportRejected(e, err) ==
    /\ e \in PendingExports
    /\ exports' = [exports EXCEPT ![e].status = "rejected"]
    /\ state' = [state EXCEPT
                   !.isExporting = FALSE,
                   !.progress = Null,
                   !.error = Some(ErrorMessage(err, "Failed to export STL"))]
    /\ lastEvent' = Event("exportRejected", e, Some(err), Null)
    /\ UNCHANGED <<settings, runs, timers>>

(* updateSettings: setSettings(prev => ({...prev, ...updates})) *)
UpdateSettings(updates) ==
    /\ settings' = [k \in DOMAIN settings |->
                      IF k \in DOMAIN updates THEN updates[k] ELSE settings[k]]
    /\ settings' # settings
    /\ lastEvent' = Event("updateSettings", 0, Some(updates), Null)
    /\ UNCHANGED <<state, runs, timers, exports>>

(* clearError *)
ClearError ==
    /\ state' = [state EXCEPT !.error = Null]
    /\ lastEvent' = Event("clearError", 0, Null, Null)
    /\ UNCHANGED <<settings, runs, timers, exports>>

-----------------------------------------------------------------------------
(* useRegions *)

InitialRegions == [regions |-> {}, isLoading |-> TRUE, error |-> Null]

(* fetchRegions: getRegions resolves *)
RegionsLoaded ==
    /\ regions.isLoading
    /\ regions' = [regions |-> RegionCatalogue, isLoading |-> FALSE, error |-> Null]

(* fetchRegions: getRegions rejects *)
RegionsFailed(err) ==
    /\ regions.isLoading
    /\ regions' = [regions EXCEPT
                     !.isLoading = FALSE,
                     !.error = Some(IF err.isError THEN err.message
                                    ELSE "Failed to load regions")]

-----------------------------------------------------------------------------
(* App *)

InitialApp == [selectedRegion |-> Null, customAreaName |-> Null]

(* RegionSelector's <select> onChange -> App.handleRegionSelect.  The      *)
(* selector is replaced by a placeholder only while the catalogue loads;   *)
(* a change event needs an option other than the selected one.             *)
HandleRegionSelect(region) ==
    /\ ~regions.isLoading
    /\ region \in regions.regions
    /\ app.selectedRegion # Some(region)
    /\ app' = [selectedRegion |-> Some(region), customAreaName |-> Null]
    /\ LoadTerrain(region)

(* the "Regenerer" button: rendered when a region is selected, disabled    *)
(* while terrainLoading                                                    *)
HandleRegenerate ==
    /\ ~IsNull(app.selectedRegion)
    /\ ~state.isLoading
    /\ LoadTerrain(Val(app.selectedRegion))
    /\ UNCHANGED app

(* App.handleCustomBBox *)
HandleCustomBBox(bbox) ==
    /\ app' = [selectedRegion |-> Null, customAreaName |-> Some("Zone personnalisee")]
    /\ LoadTerrain(CustomArg(bbox))

(* ExportPanel's button: disabled = !canExport || isExporting, with        *)
(* canExport = !!terrain && !terrainLoading                                *)
ClickExport ==
    /\ HasTerrain(state) /\ ~state.isLoading
    /\ ~state.isExporting
    /\ DownloadSTL

(* resolutions the slider is modelled to be moved to *)
SliderResolutions == {64, 128}

(* Controls: the resolution slider *)
ChangeResolution(r) ==
    /\ r \in AllowedResolutions
    /\ UpdateSettings([resolution |-> r])

(* the error banner's "Fermer" button, shown while regionsError || terrainError *)
ClickCloseError ==
    /\ ~IsNull(regions.error) \/ ~IsNull(state.error)
    /\ ClearError

-----------------------------------------------------------------------------
(* CustomAreaSelector and DrawRectangle *)

(* Latitudes are whole degrees.  Longitudes are exact rationals held as    *)
(* integers in units of 1/LngDen degree, LngDen being a common multiple of *)
(* every bed depth y the model uses, so that latDiff * (x / y) is exact.   *)
LngDen == 69300

PrinterPresets ==
    { [name |-> "Bambu Lab A1", x |-> 25, y |-> 25],
      [name |-> "Bambu Lab A1 Mini", x |-> 18, y |-> 18],
      [name |-> "Bambu Lab P1S", x |-> 25, y |-> 25],
      [name |-> "Bambu Lab X1", x |-> 25, y |-> 25],
      [name |-> "Prusa MK4", x |-> 25, y |-> 21],
      [name |-> "Ender 3", x |-> 22, y |-> 22],
      [name |-> "Custom", x |-> 20, y |-> 20] }

FirstPreset == CHOOSE p \in PrinterPresets : p.name = "Bambu Lab A1"

(* widths and depths typed into the custom-size inputs (depth 0 would make *)
(* the aspect ratio infinite and is left out)                              *)
CustomWidths == {0, 30}
CustomDepths == {10}

(* where the mouse is pressed and the latitudes it is moved to *)
MapLats == {45, 46}
MapLngs == {6}

InitialDraw == [drawing |-> FALSE, startPoint |-> Null, bounds |-> Null]

InitialArea ==
    [isOpen |-> FALSE, selectedPreset |-> FirstPreset,
     customSize |-> [x |-> 25, y |-> 25],
     selectedBounds |-> Null, draw |-> InitialDraw]

BedSize(a) ==
    IF a.selectedPreset.name = "Custom" THEN a.customSize
    ELSE [x |-> a.selectedPreset.x, y |-> a.selectedPreset.y]

(* leaflet's new LatLngBounds(corner1, corner2): the south-west corner     *)
(* takes the smaller latitude and longitude, the north-east the larger     *)
LatLngBounds(c1, c2) ==
    [south |-> Min2(c1.lat, c2.lat), north |-> Max2(c1.lat, c2.lat),
     west |-> Min2(c1.lng, c2.lng), east |-> Max2(c1.lng, c2.lng)]

(* DrawRectangle.mousemove: the rectangle spanned from startPoint *)
DragBounds(startPoint, lat, bedSize) ==
    LET latDiff == lat - startPoint.lat
        lngDiff == latDiff * bedSize.x * (LngDen \div bedSize.y)
    IN LatLngBounds(startPoint,
                    [lat |-> startPoint.lat + latDiff, lng |-> startPoint.lng + lngDiff])

(* handleGenerate: the bbox read off the selected bounds *)
BBoxOfBounds(b) ==
    [lat_min |-> b.south, lat_max |-> b.north, lon_min |-> b.west, lon_max |-> b.east]

(* the "Zone personnalisee" button *)
OpenArea ==
    /\ ~area.isOpen
    /\ area' = [area EXCEPT !.isOpen = TRUE]

(* "Annuler": the modal, and DrawRectangle with its state, unmount *)
CancelArea ==
    /\ area.isOpen
    /\ area' = [area EXCEPT !.isOpen = FALSE, !.draw = InitialDraw]

(* the printer <select> *)
SelectPreset(preset) ==
    /\ area.isOpen
    /\ preset # area.selectedPreset
    /\ area' = [area EXCEPT !.selectedPreset = preset]

(* the two custom-size inputs, rendered for the Custom preset *)
SetCustomSize(x, y) ==
    /\ area.isOpen
    /\ area.selectedPreset.name = "Custom"
    /\ area' = [area EXCEPT !.customSize = [x |-> x, y |-> y]]
    /\ area' # area

(* DrawRectangle.mousedown *)
MouseDown(lat, lng, shiftKey) ==
    /\ area.isOpen
    /\ IF shiftKey
       THEN area' = [area EXCEPT !.draw = [drawing |-> TRUE,
                                           startPoint |-> Some([lat |-> lat, lng |-> lng * LngDen]),
                                           bounds |-> Null]]
       ELSE area' = area

(* DrawRectangle.mousemove *)
MouseMove(lat) ==
    /\ area.isOpen
    /\ IF area.draw.drawing /\ ~IsNull(area.draw.startPoint)
       THEN area' = [area EXCEPT !.draw.bounds =
                        Some(DragBounds(Val(area.draw.startPoint), lat, BedSize(area)))]
       ELSE area' = area

(* DrawRectangle.mouseup, and handleBoundsChange *)
MouseUp ==
    /\ area.isOpen
    /\ IF area.draw.drawing /\ ~IsNull(area.draw.bounds)
       THEN area' = [area EXCEPT !.draw.drawing = FALSE,
                                 !.selectedBounds = area.draw.bounds]
       ELSE area' = area

(* "Generer le terrain": disabled = !selectedBounds || isLoading *)
HandleGenerate ==
    /\ area.isOpen
    /\ ~IsNull(area.selectedBounds) /\ ~state.isLoading
    /\ HandleCustomBBox(BBoxOfBounds(Val(area.selectedBounds)))
    /\ area' = [area EXCEPT !.isOpen = FALSE, !.draw = InitialDraw]

-----------------------------------------------------------------------------
(* TerrainViewer: TerrainMesh and SideWalls *)

(* Coordinates are exact rationals held as integers:                       *)
(*   x in units of 1/Den(cols-1), z in units of 1/Den(rows-1),             *)
(*   heights (y) in units of 1/YDen with YDen = 20 * elevRange;            *)
(* baseThickness is the prop in tenths (App passes settings.baseThickness  *)
(* / 10).  The unit of a built geometry is kept with it.                   *)

SceneSize == 10
HalfSize == 5
VerticalScale == 3

(* a coordinate that is not a number (0 * Infinity, 0 / 0) *)
NaN == "NaN"

(* the unit of a coordinate along an axis cut into n segments; an axis     *)
(* with no segment (a single row or column) keeps whole units              *)
Den(n) == IF n = 0 THEN 1 ELSE n

(* heightmap[i][j], zero-based as in the source *)
Sample(heightmap, i, j) == heightmap[i + 1][j + 1]

RowsOf(heightmap) == Len(heightmap)
ColsOf(heightmap) == Len(heightmap[1])

SamplesOfFirstRow(heightmap) ==
    { Sample(heightmap, 0, j) : j \in 0..(ColsOf(heightmap) - 1) }

Samples(heightmap) ==
    { Sample(heightmap, i, j) : i \in 0..(RowsOf(heightmap) - 1), j \in 0..(ColsOf(heightmap) - 1) }

SetMin(S) == CHOOSE m \in S : \A n \in S : m <= n
SetMax(S) == CHOOSE m \in S : \A n \in S : m >= n

(* `maxElev - minElev || 1` *)
ElevRangeUnguarded(heightmap) ==
    SetMax(Samples(heightmap)) - SetMin(Samples(heightmap))

ElevRange(heightmap) ==
    LET d == SetMax(Samples(heightmap)) - SetMin(Samples(heightmap))
    IN IF d = 0 THEN 1 ELSE d

YDen(heightmap) == 20 * ElevRange(heightmap)

(* TerrainMesh: y of vertex (i, j) = normalizedElev * 3, in 1/YDen *)
TerrainYUnflipped(heightmap, i, j) ==
    LET elev == Sample(heightmap, i, j)
        minElev == SetMin(Samples(heightmap))
    IN (elev - minElev) * VerticalScale * 20

TerrainY(heightmap, i, j) ==
    LET elev == Sample(heightmap, RowsOf(heightmap) - 1 - i, j)
        minElev == SetMin(Samples(heightmap))
    IN (elev - minElev) * VerticalScale * 20

GetYUnnormalised(heightmap, i, j) ==
    LET elev == Sample(heightmap, RowsOf(heightmap) - 1 - i, j)
        minElev == SetMin(Samples(heightmap))
    IN (elev - minElev) * VerticalScale * 20 * ElevRange(heightmap)

(* SideWalls.getY, in 1/YDen *)
GetY(heightmap, i, j) ==
    LET elev == Sample(heightmap, RowsOf(heightmap) - 1 - i, j)
        minElev == SetMin(Samples(heightmap))
    IN (elev - minElev) * VerticalScale * 20

(* three's PlaneGeometry(width, height, gridX, gridY) after                *)
(* rotateX(-PI/2): vertex iy*gridX1+ix is built at (x, -y, 0) with         *)
(* x = ix*segW - width/2, y = iy*segH - height/2, and the rotation maps    *)
(* (x, y, z) to (x, z, -y); faces are (a, b, d), (b, c, d).  With no       *)
(* segment along an axis segW (segH) is size / 0 = Infinity and the        *)
(* coordinate 0 * Infinity - size/2 is NaN.                                *)
PlaneVertex(ix, iy, gridX, gridY) ==
    <<IF gridX = 0 THEN NaN ELSE ix * SceneSize - HalfSize * gridX,
      0,
      IF gridY = 0 THEN NaN ELSE iy * SceneSize - HalfSize * gridY>>

PlaneIndex(gridX, gridY) ==
    [k \in 1..(2 * gridX * gridY) |->
        LET q == (k - 1) \div 2
            iy == q \div gridX
            ix == q % gridX
            gridX1 == gridX + 1
            a == ix + gridX1 * iy
            b == ix + gridX1 * (iy + 1)
            c == (ix + 1) + gridX1 * (iy + 1)
            d == (ix + 1) + gridX1 * iy
        IN IF (k - 1) % 2 = 0 THEN <<a, b, d>> ELSE <<b, c, d>>]

(* TerrainMesh, first useMemo: the surface geometry with minY and maxY *)
TerrainGeometry(heightmap) ==
    LET rows == RowsOf(heightmap)
        cols == ColsOf(heightmap)
        position == [k \in 1..(rows * cols) |->
                        LET idx == k - 1
                            i == idx \div cols
                            j == idx % cols
                            v == PlaneVertex(j, i, cols - 1, rows - 1)
                        IN <<v[1], TerrainY(heightmap, i, j), v[3]>>]
        ys == { position[k][2] : k \in DOMAIN position }
    IN [position |-> position,
        index |-> PlaneIndex(cols - 1, rows - 1),
        minY |-> SetMin(ys),
        maxY |-> SetMax(ys)]

(* TerrainMesh, second useMemo: the box and the height of its centre.      *)
(* height in 1/YDen: baseThickness/10 * 20 * elevRange                     *)
BaseGeometry(showBase, baseThickness, minY, elevRange) ==
    IF ~showBase THEN Null
    ELSE LET baseHeight == 2 * baseThickness * elevRange
             baseY == minY - baseHeight \div 2
         IN Some([height |-> baseHeight, positionY |-> baseY])

(* SideWalls: baseY *)
WallBaseY(baseThickness, minY, elevRange) == minY - 2 * baseThickness * elevRange

(* SideWalls: the quads of the four wall loops, in the order of addQuad *)
WallQuads(heightmap, baseY) ==
    LET rows == RowsOf(heightmap)
        cols == ColsOf(heightmap)
        X(j) == j * SceneSize - HalfSize * (cols - 1)
        Z(i) == HalfSize * (rows - 1) - i * SceneSize
        xLeft == 0 - HalfSize * Den(cols - 1)
        xRight == HalfSize * Den(cols - 1)
        zFront == HalfSize * Den(rows - 1)
        zBack == 0 - HalfSize * Den(rows - 1)
        front == [n \in 1..(cols - 1) |->
                    LET j == n - 1
                        y1 == GetY(heightmap, 0, j)
                        y2 == GetY(heightmap, 0, j + 1)
                    IN << <<X(j), y1, zFront>>, <<X(j + 1), y2, zFront>>,
                          <<X(j + 1), baseY, zFront>>, <<X(j), baseY, zFront>> >>]
        back == [n \in 1..(cols - 1) |->
                    LET j == n - 1
                        y1 == GetY(heightmap, rows - 1, j)
                        y2 == GetY(heightmap, rows - 1, j + 1)
                    IN << <<X(j + 1), y2, zBack>>, <<X(j), y1, zBack>>,
                          <<X(j), baseY, zBack>>, <<X(j + 1), baseY, zBack>> >>]
        left == [n \in 1..(rows - 1) |->
                    LET i == n - 1
                        y1 == GetY(heightmap, i, 0)
                        y2 == GetY(heightmap, i + 1, 0)
                    IN << <<xLeft, y2, Z(i + 1)>>, <<xLeft, y1, Z(i)>>,
                          <<xLeft, baseY, Z(i)>>, <<xLeft, baseY, Z(i + 1)>> >>]
        right == [n \in 1..(rows - 1) |->
                    LET i == n - 1
                        y1 == GetY(heightmap, i, cols - 1)
                        y2 == GetY(heightmap, i + 1, cols - 1)
                    IN << <<xRight, y1, Z(i)>>, <<xRight, y2, Z(i + 1)>>,
                          <<xRight, baseY, Z(i + 1)>>, <<xRight, baseY, Z(i)>> >>]
    IN front \o back \o left \o right

(* SideWalls.addQuad applied to every quad: 4 vertices and 2 faces each *)
WallGeometryOneTrianglePerQuad(heightmap, baseThickness, minY) ==
    LET baseY == WallBaseY(baseThickness, minY, ElevRange(heightmap))
        quads == WallQuads(heightmap, baseY)
    IN [position |-> [k \in 1..(4 * Len(quads)) |-> quads[((k - 1) \div 4) + 1][((k - 1) % 4) + 1]],
        index |-> [k \in 1..Len(quads) |->
                     LET vertexIndex == 4 * (k - 1)
                     IN <<vertexIndex, vertexIndex + 1, vertexIndex + 2>>],
        baseY |-> baseY]

WallGeometry(heightmap, baseThickness, minY) ==
    LET baseY == WallBaseY(baseThickness, minY, ElevRange(heightmap))
        quads == WallQuads(heightmap, baseY)
    IN [position |-> [k \in 1..(4 * Len(quads)) |-> quads[((k - 1) \div 4) + 1][((k - 1) % 4) + 1]],
        index |-> [k \in 1..(2 * Len(quads)) |->
                     LET vertexIndex == 4 * ((k - 1) \div 2)
                     IN IF (k - 1) % 2 = 0
                        THEN <<vertexIndex, vertexIndex + 1, vertexIndex + 2>>
                        ELSE <<vertexIndex, vertexIndex + 2, vertexIndex + 3>>],
        baseY |-> baseY]

(* one render of TerrainViewer: null without a heightmap, else the three   *)
(* memoised geometries                                                     *)
Render(props) ==
    IF IsNull(props.heightmap) THEN Null
    ELSE LET heightmap == Val(props.heightmap)
             geometry == TerrainGeometry(heightmap)
         IN Some([geometry |-> geometry,
                  baseGeometry |-> BaseGeometry(props.showBase, props.baseThickness,
                                                geometry.minY, ElevRange(heightmap)),
                  sideWalls |-> IF props.showBase
                                THEN Some(WallGeometry(heightmap, props.baseThickness, geometry.minY))
                                ELSE Null,
                  rows |-> RowsOf(heightmap),
                  cols |-> ColsOf(heightmap),
                  yDen |-> YDen(heightmap)])

(* three's BoxGeometry.buildPlane for one face of a 1x1x1-segment box:     *)
(* the face's 4 vertices (axis u runs with udir, v with vdir, w is fixed)  *)
(* and its two faces (a, b, d), (b, c, d)                                  *)
BoxFace(u, v, w, udir, vdir, width, height, depth) ==
    LET vertex(ix, iy) ==
            LET x == ix * width - width \div 2
                y == iy * height - height \div 2
                vec == [a \in {"x", "y", "z"} |->
                          IF a = u THEN x * udir
                          ELSE IF a = v THEN y * vdir
                          ELSE depth \div 2]
            IN <<vec["x"], vec["y"], vec["z"]>>
        a == vertex(0, 0)
        b == vertex(0, 1)
        c == vertex(1, 1)
        d == vertex(1, 0)
    IN << <<a, b, d>>, <<b, c, d>> >>

(* three's BoxGeometry(width, height, depth): px, nx, py, ny, pz, nz *)
BoxTriangles(width, height, depth) ==
    BoxFace("z", "y", "x", -1, -1, depth, height, width)
    \o BoxFace("z", "y", "x", 1, -1, depth, height, 0 - width)
    \o BoxFace("x", "z", "y", 1, 1, width, depth, height)
    \o BoxFace("x", "z", "y", 1, -1, width, depth, 0 - height)
    \o BoxFace("x", "y", "z", 1, -1, width, height, depth)
    \o BoxFace("x", "y", "z", -1, -1, width, height, 0 - depth)

(* the triangles of an indexed geometry, as triples of positions *)
TrianglesOf(geometry) ==
    [k \in DOMAIN geometry.index |->
        <<geometry.position[geometry.index[k][1] + 1],
          geometry.position[geometry.index[k][2] + 1],
          geometry.position[geometry.index[k][3] + 1]>>]

Lift(t, dy) == [n \in 1..3 |-> <<t[n][1], t[n][2] + dy, t[n][3]>>]

(* the <mesh> of the base: BoxGeometry(size, baseHeight, size) placed at   *)
(* position [0, positionY, 0]                                              *)
BaseTriangles(m) ==
    IF IsNull(m.baseGeometry) THEN <<>>
    ELSE LET base == Val(m.baseGeometry)
             box == BoxTriangles(SceneSize * Den(m.cols - 1), base.height,
                                 SceneSize * Den(m.rows - 1))
         IN [k \in DOMAIN box |-> Lift(box[k], base.positionY)]

(* everything the <group> of TerrainMesh draws *)
SceneTriangles(m) ==
    TrianglesOf(m.geometry)
    \o BaseTriangles(m)
    \o (IF IsNull(m.sideWalls) THEN <<>> ELSE TrianglesOf(Val(m.sideWalls)))

(* heights of the top and bottom faces of the base, in 1/yDen *)
BaseTopY(base) == base.positionY + base.height \div 2
BaseBottomY(base) == base.positionY - base.height \div 2

(* the props TerrainViewer is modelled to receive: rectangular grids of    *)
(* finite samples, single rows and single columns included                 *)
Heightmaps ==
    UNION { [1..r -> [1..c -> 0..MaxElevation]] : r \in 1..MaxRows, c \in 1..MaxCols }

Thicknesses == {2, 5}

(* the first render of TerrainViewer with its props *)
MountViewer ==
    /\ ~viewer.mounted
    /\ viewer' = [viewer EXCEPT !.mounted = TRUE]
    /\ mesh' = Render(viewer')

(* App re-renders TerrainViewer with another showBase *)
SetShowBase(b) ==
    /\ viewer.mounted
    /\ b # viewer.showBase
    /\ viewer' = [viewer EXCEPT !.showBase = b]
    /\ mesh' = Render(viewer')

(* App re-renders TerrainViewer with another baseThickness *)
SetBaseThickness(t) ==
    /\ viewer.mounted
    /\ t # viewer.baseThickness
    /\ viewer' = [viewer EXCEPT !.baseThickness = t]
    /\ mesh' = Render(viewer')

(* factors by which a later terrain's samples are those of the shown one *)
ScaleFactors == {2, 3}

Scaled(heightmap, k) ==
    [i \in DOMAIN heightmap |-> [j \in DOMAIN heightmap[i] |-> k * heightmap[i][j]]]

(* App re-renders TerrainViewer with the heightmap of another terrain,     *)
(* here one whose samples are k times those shown                          *)
ScaleElevations(k) ==
    /\ viewer.mounted
    /\ ~IsNull(viewer.heightmap)
    /\ k * SetMax(Samples(Val(viewer.heightmap))) <= MaxScale * MaxElevation
    /\ viewer' = [viewer EXCEPT !.heightmap = Some(Scaled(Val(viewer.heightmap), k))]
    /\ viewer' # viewer
    /\ mesh' = Render(viewer')

-----------------------------------------------------------------------------
(* LoadingOverlay: what it derives from the progress prop *)

(* Math.round((progress.current / progress.total) * 100), for              *)
(* current >= 0 and total > 0                                              *)
Percentage(progress) == (200 * progress.current + progress.total) \div (2 * progress.total)

(* Math.ceil((progress.total - progress.current) * 0.6) *)
RemainingSeconds(progress) ==
    LET tenths == (progress.total - progress.current) * 6
    IN IF tenths >= 0 THEN CeilDiv(tenths, 10) ELSE 0 - ((0 - tenths) \div 10)

-----------------------------------------------------------------------------
(* ExportPanel: the estimates it displays, and the Controls that change    *)
(* the settings it is rendered from                                        *)

EstimateTrianglesPerSample(resolution, addBase) ==
    LET terrainTris == 2 * resolution ^ 2
    IN IF ~addBase THEN terrainTris
       ELSE LET baseTris == terrainTris
                sideTris == 4 * 2 * (resolution - 1)
            IN terrainTris + baseTris + sideTris

(* estimateTriangles *)
EstimateTriangles(resolution, addBase) ==
    LET terrainTris == 2 * (resolution - 1) ^ 2
    IN IF ~addBase THEN terrainTris
       ELSE LET baseTris == terrainTris
                sideTris == 4 * 2 * (resolution - 1)
            IN terrainTris + baseTris + sideTris

EstimateFileSizeWithoutCount(resolution, addBase) ==
    80 + EstimateTriangles(resolution, addBase) * 50

(* estimateFileSize *)
EstimateFileSize(resolution, addBase) ==
    LET triangles == EstimateTriangles(resolution, addBase)
    IN 84 + triangles * 50

(* the resolution the print-time estimate is 2 hours at *)
PrintReference == 128

PrintTimeTruncated(resolution) ==
    (2 * resolution ^ 2) \div (PrintReference ^ 2)

(* Math.round(2 * (settings.resolution / 128) ** 2): the quotient          *)
(* 2 r^2 / 128^2 rounded to the nearest integer, a half rounding up        *)
PrintTimeHours(resolution) ==
    (2 * (2 * resolution ^ 2) + PrintReference ^ 2) \div (2 * PrintReference ^ 2)

ExportPanelIgnoringBase(s) ==
    [triangles |-> EstimateTriangles(s.resolution, FALSE),
     fileSize |-> EstimateFileSize(s.resolution, FALSE),
     printTime |-> PrintTimeHours(s.resolution)]

(* one render of ExportPanel from the settings prop *)
ExportPanel(s) ==
    [triangles |-> EstimateTriangles(s.resolution, s.addBase),
     fileSize |-> EstimateFileSize(s.resolution, s.addBase),
     printTime |-> PrintTimeHours(s.resolution)]

(* slider positions the model moves the tenths-valued sliders to *)
SliderTenths == {5, 15, 30}

(* positions of the base-thickness slider (min 2, max 15, step 1) *)
SliderThicknesses == {2, 5, 15}

(* a change made in Controls: updateSettings, then App renders ExportPanel *)
(* again from the new settings                                             *)
ControlsChange(updates) ==
    /\ UpdateSettings(updates)
    /\ panel' = Some(ExportPanel(settings'))

MoveResolution(r) == ChangeResolution(r) /\ panel' = Some(ExportPanel(settings'))
MoveHeightExaggeration(h) == ControlsChange([heightExaggeration |-> h])
MoveScaleZ(z) == ControlsChange([scaleZ |-> z])
ToggleAddBase == ControlsChange([addBase |-> ~settings.addBase])
(* the thickness slider is rendered only while addBase is checked *)
MoveBaseThickness(t) == settings.addBase /\ ControlsChange([baseThickness |-> t])

-----------------------------------------------------------------------------
(* The parts of the state each specification leaves at rest *)

InitHook ==
    /\ state = InitialState
    /\ settings = InitialSettings
    /\ runs = <<>>
    /\ timers = <<>>
    /\ exports = <<>>
    /\ lastEvent = Event("mount", 0, Null, Null)

InitRegions == regions = InitialRegions

InitApp == app = InitialApp

InitArea == area = InitialArea

InitViewer ==
    /\ viewer = [heightmap |-> Null, showBase |-> TRUE, baseThickness |-> 5, mounted |-> FALSE]
    /\ mesh = Null
    /\ panel = Null

-----------------------------------------------------------------------------
(* Spec: the hook driven through its returned functions by any caller *)

Init == InitHook /\ InitRegions /\ InitApp /\ InitArea /\ InitViewer

HookCallLoadTerrain == \E arg \in HookArgs : LoadTerrain(arg)
HookCallUpdateSettings == \E r \in HookResolutions : UpdateSettings([resolution |-> r])
TimerFires == \E run \in DOMAIN timers : ProgressTick(run)
GenerateSettles ==
    \E run \in PendingRuns :
        \/ LoadResolved(run)
        \/ \E err \in RejectionValues : LoadRejected(run, err)
ExportTimerFires == \E e \in DOMAIN exports : ExportTimeout(e)
ExportSettles ==
    \E e \in PendingExports :
        \/ ExportResolved(e)
        \/ \E err \in RejectionValues : ExportRejected(e, err)

Next ==
    \/ (HookCallLoadTerrain /\ UNCHANGED <<appVars, meshVars>>)
    \/ (DownloadSTL /\ UNCHANGED <<appVars, meshVars>>)
    \/ (HookCallUpdateSettings /\ UNCHANGED <<appVars, meshVars>>)
    \/ (ClearError /\ UNCHANGED <<appVars, meshVars>>)
    \/ (TimerFires /\ UNCHANGED <<appVars, meshVars>>)
    \/ (GenerateSettles /\ UNCHANGED <<appVars, meshVars>>)
    \/ (ExportTimerFires /\ UNCHANGED <<appVars, meshVars>>)
    \/ (ExportSettles /\ UNCHANGED <<appVars, meshVars>>)

Spec == Init /\ [][Next]_vars

-----------------------------------------------------------------------------
(* SpecArea: the custom-area selector, from the drag to handleGenerate,    *)
(* with the loads it starts                                                *)

DrawsOnMap ==
    \/ \E lat \in MapLats, lng \in MapLngs, shiftKey \in BOOLEAN : MouseDown(lat, lng, shiftKey)
    \/ \E lat \in MapLats : MouseMove(lat)
    \/ MouseUp

PicksBedSize ==
    \/ \E preset \in PrinterPresets : SelectPreset(preset)
    \/ \E x \in CustomWidths, y \in CustomDepths : SetCustomSize(x, y)

NextArea ==
    \/ (OpenArea /\ UNCHANGED <<hookVars, lastEvent, regions, app, meshVars>>)
    \/ (CancelArea /\ UNCHANGED <<hookVars, lastEvent, regions, app, meshVars>>)
    \/ (PicksBedSize /\ UNCHANGED <<hookVars, lastEvent, regions, app, meshVars>>)
    \/ (DrawsOnMap /\ UNCHANGED <<hookVars, lastEvent, regions, app, meshVars>>)
    \/ (HandleGenerate /\ UNCHANGED <<regions, meshVars>>)
    \/ (GenerateSettles /\ UNCHANGED <<appVars, meshVars>>)

SpecArea == Init /\ [][NextArea]_vars

-----------------------------------------------------------------------------
(* SpecApp: the hook driven by the user through App *)

RegionsSettle ==
    \/ RegionsLoaded
    \/ \E err \in RejectionValues : RegionsFailed(err)

UserStartsLoad ==
    \/ (\E region \in RegionCatalogue : HandleRegionSelect(region)) /\ UNCHANGED <<regions, area>>
    \/ HandleRegenerate /\ UNCHANGED <<regions, area>>
    \/ HandleGenerate /\ UNCHANGED regions

UserDrawsArea ==
    \/ OpenArea
    \/ CancelArea
    \/ \E lat \in MapLats, lng \in MapLngs : MouseDown(lat, lng, TRUE)
    \/ \E lat \in MapLats : MouseMove(lat)
    \/ MouseUp

NextApp ==
    \/ (RegionsSettle /\ UNCHANGED <<hookVars, lastEvent, app, area, meshVars>>)
    \/ (UserStartsLoad /\ UNCHANGED meshVars)
    \/ (UserDrawsArea /\ UNCHANGED <<hookVars, lastEvent, regions, app, meshVars>>)
    \/ (ClickExport /\ UNCHANGED <<appVars, meshVars>>)
    \/ ((\E r \in SliderResolutions : ChangeResolution(r)) /\ UNCHANGED <<appVars, meshVars>>)
    \/ (ClickCloseError /\ UNCHANGED <<appVars, meshVars>>)
    \/ (TimerFires /\ UNCHANGED <<appVars, meshVars>>)
    \/ (GenerateSettles /\ UNCHANGED <<appVars, meshVars>>)
    \/ (ExportTimerFires /\ UNCHANGED <<appVars, meshVars>>)
    \/ (ExportSettles /\ UNCHANGED <<appVars, meshVars>>)

SpecApp == Init /\ [][NextApp]_vars

-----------------------------------------------------------------------------
(* SpecMesh: TerrainViewer rendered with one heightmap and re-rendered     *)
(* when the base settings change                                           *)

InitMesh ==
    /\ InitHook /\ InitRegions /\ InitApp /\ InitArea
    /\ viewer \in [heightmap : {Some(h) : h \in Heightmaps},
                   showBase : BOOLEAN,
                   baseThickness : Thicknesses,
                   mounted : {FALSE}]
    /\ mesh = Null
    /\ panel = Null

NextMesh ==
    \/ (MountViewer /\ UNCHANGED <<hookVars, lastEvent, appVars, panel>>)
    \/ ((\E b \in BOOLEAN : SetShowBase(b)) /\ UNCHANGED <<hookVars, lastEvent, appVars, panel>>)
    \/ ((\E t \in Thicknesses : SetBaseThickness(t)) /\ UNCHANGED <<hookVars, lastEvent, appVars, panel>>)
    \/ ((\E k \in ScaleFactors : ScaleElevations(k)) /\ UNCHANGED <<hookVars, lastEvent, appVars, panel>>)

SpecMesh == InitMesh /\ [][NextMesh]_vars

-----------------------------------------------------------------------------
(* SpecPanel: App's first render shows ExportPanel for the initial         *)
(* settings; the user then works the Controls                              *)

InitPanel ==
    /\ InitHook /\ InitRegions /\ InitApp /\ InitArea
    /\ viewer = [heightmap |-> Null, showBase |-> TRUE, baseThickness |-> 5, mounted |-> FALSE]
    /\ mesh = Null
    /\ panel = Some(ExportPanel(settings))

NextPanel ==
    \/ ((\E r \in AllowedResolutions : MoveResolution(r)) /\ UNCHANGED <<appVars, viewer, mesh>>)
    \/ ((\E h \in SliderTenths : MoveHeightExaggeration(h)) /\ UNCHANGED <<appVars, viewer, mesh>>)
    \/ ((\E z \in SliderTenths : MoveScaleZ(z)) /\ UNCHANGED <<appVars, viewer, mesh>>)
    \/ (ToggleAddBase /\ UNCHANGED <<appVars, viewer, mesh>>)
    \/ ((\E t \in SliderThicknesses : MoveBaseThickness(t)) /\ UNCHANGED <<appVars, viewer, mesh>>)

SpecPanel == InitPanel /\ [][NextPanel]_vars

-----------------------------------------------------------------------------
(* SpecPlan: the hook loading under resolution settings on both sides of   *)
(* the fetch cap and of the batch boundaries                               *)

PlanResolutions == {1, 22, 23, 63, 64, 65} \cup AllowedResolutions

PlanUpdateResolution == \E r \in PlanResolutions : UpdateSettings([resolution |-> r])

NextPlan ==
    \/ (PlanUpdateResolution /\ UNCHANGED <<appVars, meshVars>>)
    \/ (HookCallLoadTerrain /\ UNCHANGED <<appVars, meshVars>>)
    \/ (TimerFires /\ UNCHANGED <<appVars, meshVars>>)
    \/ (GenerateSettles /\ UNCHANGED <<appVars, meshVars>>)

SpecPlan == Init /\ [][NextPlan]_vars

-----------------------------------------------------------------------------
(* Properties of the hook *)

LatestRun == Len(runs)

(* C1: once request B has started while request A was pending, nothing of  *)
(* A is applied to the hook state any more (no progress tick, no terrain,  *)
(* no error message of A), and when every call has settled the terrain is  *)
(* the response of the latest run if that run resolved.                    *)
C1_SupersededRunIsSilent ==
    /\ lastEvent.kind \in {"progressTick", "loadResolved", "loadRejected"}
          => lastEvent.run = LatestRun
    /\ (LatestRun >= 2 /\ PendingRuns = {} /\ runs[LatestRun] = "resolved")
          => state.terrain = Some([id |-> LatestRun])

(* C3: between two consecutive progress values, progress.current never    *)
(* decreases, except in the step in which a new load run starts and        *)
(* resets it to 0.                                                         *)
C3_ProgressMonotonic ==
    [][ (/\ ~IsNull(state.progress)
         /\ ~IsNull(state'.progress)
         /\ lastEvent'.kind \in {"progressTick", "idleTick"})
        => Val(state'.progress).current >= Val(state.progress).current ]_vars

(* C4: a rejected generateTerrain or exportSTL leaves the hook idle and    *)
(* re-triggerable: its flag is false, progress is null and error is the    *)
(* Error's message or the fixed fallback text; after a rejected export the *)
(* terrain is still there, so downloadSTL passes its guard again; and the  *)
(* call that starts the next run resets error to null.                     *)
C4_RejectionReturnsToIdle ==
    /\ lastEvent.kind = "loadRejected" =>
          /\ ~state.isLoading
          /\ IsNull(state.progress)
          /\ state.error = Some(IF Val(lastEvent.input).isError
                                THEN Val(lastEvent.input).message
                                ELSE "Failed to load terrain")
    /\ lastEvent.kind = "exportRejected" =>
          /\ ~state.isExporting
          /\ IsNull(state.progress)
          /\ state.error = Some(IF Val(lastEvent.input).isError
                                THEN Val(lastEvent.input).message
                                ELSE "Failed to export STL")
          /\ ~IsNull(state.terrain)
    /\ lastEvent.kind = "loadTerrain" =>
          /\ state.isLoading
          /\ IsNull(state.error)
          /\ runs[lastEvent.run] = "pending"
    /\ (lastEvent.kind = "downloadSTL" /\ lastEvent.run > 0) =>
          /\ state.isExporting
          /\ IsNull(state.error)
          /\ exports[lastEvent.run].status = "pending"

(* an export restarted after a rejected export, with a rejected load behind it *)
C4_Witness ==
    /\ lastEvent.kind = "downloadSTL"
    /\ lastEvent.run = 2
    /\ exports[1].status = "rejected"
    /\ \E r \in DOMAIN runs : runs[r] = "rejected"
    /\ IsNull(state.error)
    /\ state.isExporting

(* C5: downloadSTL called while terrain is null changes nothing: no        *)
(* export request, no timer, and terrain, isLoading, isExporting, error    *)
(* and progress keep their values.                                         *)
C5_DownloadWithoutTerrainIsNoOp ==
    [][ (lastEvent'.kind = "downloadSTL" /\ IsNull(state.terrain))
        => (/\ state' = state
            /\ exports' = exports
            /\ timers' = timers
            /\ runs' = runs
            /\ IsNull(lastEvent'.request)) ]_vars

(* downloadSTL has just returned early while a load was showing progress *)
C5_Witness ==
    /\ lastEvent.kind = "downloadSTL"
    /\ lastEvent.run = 0
    /\ IsNull(state.terrain)
    /\ state.isLoading
    /\ ~IsNull(state.progress)
    /\ exports = <<>>

ValidRequest(req) ==
    /\ req.resolution \in AllowedResolutions
    /\ "bbox" \in DOMAIN req => WellFormedBBox(req.bbox)

(* C6: a loadTerrain whose request has a resolution outside the allowed    *)
(* set or a malformed bbox issues no generateTerrain call and surfaces an  *)
(* error at once.                                                          *)
C6_InvalidRequestRejectedEarly ==
    (lastEvent.kind = "loadTerrain" /\ ~ValidRequest(Val(lastEvent.request)))
       => (runs[lastEvent.run] # "pending" /\ ~IsNull(state.error))

(* C8: the request built by loadTerrain has a region and no bbox when the  *)
(* argument is a Region, and a bbox and no region otherwise.               *)
C8_RegionXorBBox ==
    lastEvent.kind = "loadTerrain" =>
        LET arg == Val(lastEvent.input)
            req == Val(lastEvent.request)
        IN IF "id" \in DOMAIN arg
           THEN "region" \in DOMAIN req /\ "bbox" \notin DOMAIN req /\ req.region = arg.id
           ELSE "bbox" \in DOMAIN req /\ "region" \notin DOMAIN req /\ req.bbox = arg.bbox

(* both shapes of request have been sent in one behaviour *)
C8_Witness ==
    /\ lastEvent.kind = "loadTerrain"
    /\ "bbox" \in DOMAIN Val(lastEvent.request)
    /\ LatestRun = 2
    /\ state.terrain = Some([id |-> 1])

-----------------------------------------------------------------------------
(* Properties of App and of the custom-area selector *)

(* C2: at most one generateTerrain call is pending at any time, whatever   *)
(* the user does in the UI.                                                *)
C2_AtMostOneRunInFlight == Cardinality(PendingRuns) <= 1

(* C7: every bbox that handleGenerate hands to loadTerrain has             *)
(* lat_min < lat_max and lon_min < lon_max.                                *)
C7_SelectedBBoxWellFormed ==
    (lastEvent.kind = "loadTerrain" /\ "bbox" \in DOMAIN Val(lastEvent.request))
       => LET b == Val(lastEvent.request).bbox
          IN b.lat_min < b.lat_max /\ b.lon_min < b.lon_max

-----------------------------------------------------------------------------
(* Properties of the preview mesh *)

(* the triangles of the scene that traverse the edge from p to q *)
Traversals(tris, p, q) ==
    Cardinality({ k \in DOMAIN tris :
                    \E n \in 1..3 : tris[k][n] = p /\ tris[k][(n % 3) + 1] = q })

ClosedManifold(tris) ==
    \A k \in DOMAIN tris : \A n \in 1..3 :
        LET p == tris[k][n]
            q == tris[k][(n % 3) + 1]
        IN Traversals(tris, p, q) = 1 /\ Traversals(tris, q, p) = 1

(* C9: with a base, the triangles of terrain surface, base box and skirt   *)
(* walls form a closed 2-manifold: every edge is traversed once in each    *)
(* direction, by exactly two triangles.                                    *)
C9_SolidIsClosedManifold ==
    (~IsNull(mesh) /\ viewer.showBase /\ Val(mesh).rows >= 2 /\ Val(mesh).cols >= 2)
       => ClosedManifold(SceneTriangles(Val(mesh)))

(* C10: with a base, the top face of the base plate and the bottom edge of *)
(* every skirt quad are at one and the same height.                        *)
C10_BaseTopMeetsSkirtBottom ==
    (~IsNull(mesh) /\ viewer.showBase) =>
        LET m == Val(mesh)
            walls == Val(m.sideWalls)
        IN \A k \in DOMAIN walls.position :
              (k - 1) % 4 \in {2, 3} => walls.position[k][2] = BaseTopY(Val(m.baseGeometry))

Degenerate(heightmap) == RowsOf(heightmap) < 2 \/ ColsOf(heightmap) < 2

(* C11: a heightmap with fewer than 2 rows or fewer than 2 columns is      *)
(* refused: once the viewer has rendered it, no surface and no skirt       *)
(* geometry exists.                                                        *)
C11_DegenerateGridBuildsNothing ==
    (viewer.mounted /\ ~IsNull(viewer.heightmap) /\ Degenerate(Val(viewer.heightmap)))
       => IsNull(mesh)

Flat(heightmap) == SetMax(Samples(heightmap)) = SetMin(Samples(heightmap))

SameDimensions(h, heightmap) ==
    RowsOf(h) = RowsOf(heightmap) /\ ColsOf(h) = ColsOf(heightmap)

(* the vertices addQuad pushes first and second are the quad's top edge *)
WallTops(walls) == { k \in DOMAIN walls.position : (k - 1) % 4 < 2 }

(* C12: for a flat grid of at least 2 x 2 samples the divisor of the       *)
(* normalisation is not zero, every surface vertex and every skirt top     *)
(* vertex has normalized height 0, and the surface and the skirt have as   *)
(* many triangles as those of every other grid of the same dimensions.     *)
C12_FlatGridIsNormalisedToZero ==
    (viewer.mounted /\ ~IsNull(mesh) /\ ~Degenerate(Val(viewer.heightmap))
        /\ Flat(Val(viewer.heightmap)))
       => LET m == Val(mesh)
              heightmap == Val(viewer.heightmap)
          IN /\ m.yDen # 0
             /\ \A k \in DOMAIN m.geometry.position : m.geometry.position[k][2] = 0
             /\ ~IsNull(m.sideWalls) =>
                   \A k \in WallTops(Val(m.sideWalls)) : Val(m.sideWalls).position[k][2] = 0
             /\ \A h \in Heightmaps :
                   SameDimensions(h, heightmap) =>
                      LET other == Val(Render([viewer EXCEPT !.heightmap = Some(h)]))
                      IN /\ Len(other.geometry.index) = Len(m.geometry.index)
                         /\ ~IsNull(m.sideWalls) =>
                               Len(Val(other.sideWalls).index) = Len(Val(m.sideWalls).index)

C12_Witness ==
    /\ viewer.mounted /\ ~IsNull(mesh) /\ viewer.showBase
    /\ Flat(Val(viewer.heightmap))
    /\ Val(mesh).rows = 3 /\ Val(mesh).cols = 2
    /\ Val(viewer.heightmap)[1][1] = 1
    /\ Len(Val(mesh).geometry.index) = 4
    /\ Len(Val(Val(mesh).sideWalls).index) = 12

Shown == Val(panel)

(* C13: whenever the panel is shown for settings without a base, its       *)
(* triangle count is 2 (r - 1)^2 for the allowed resolution r of the       *)
(* settings, which is 7938 at r = 64.                                      *)
C13_TerrainTriangles ==
    (~IsNull(panel) /\ ~settings.addBase)
       => /\ settings.resolution \in AllowedResolutions
          /\ Shown.triangles = 2 * (settings.resolution - 1) * (settings.resolution - 1)
          /\ settings.resolution = 64 => Shown.triangles = 7938

C13_Witness ==
    /\ ~IsNull(panel) /\ ~settings.addBase
    /\ settings.resolution = 64 /\ Shown.triangles = 7938

(* C14: with a base the count is the terrain term, the same term again     *)
(* for the base and 4 * 2 * (r - 1) for the sides; without a base the base *)
(* and side terms are 0.                                                   *)
C14_TrianglesWithBase ==
    ~IsNull(panel)
       => LET r == settings.resolution
              terrain == 2 * (r - 1) * (r - 1)
              base == IF settings.addBase THEN terrain ELSE 0
              sides == IF settings.addBase THEN 4 * 2 * (r - 1) ELSE 0
          IN Shown.triangles = terrain + base + sides

C14_Witness ==
    /\ ~IsNull(panel) /\ settings.addBase
    /\ settings.resolution = 256 /\ Shown.triangles = 262140

(* C15 as stated: the displayed file size is 84 + 50 * the displayed       *)
(* triangle count, and 1,613,684 bytes at resolution 128 without a base.   *)
C15_FileSizeAsStated ==
    ~IsNull(panel)
       => /\ Shown.fileSize = 84 + 50 * Shown.triangles
          /\ (settings.resolution = 128 /\ ~settings.addBase) => Shown.fileSize = 1613684

(* C15 amended: the displayed file size is 84 + 50 * the displayed         *)
(* triangle count, and 1,612,984 bytes (84 + 2 * 127^2 * 50) at resolution *)
(* 128 without a base.                                                     *)
C15_FileSize ==
    ~IsNull(panel)
       => /\ Shown.fileSize = 84 + 50 * Shown.triangles
          /\ (settings.resolution = 128 /\ ~settings.addBase) => Shown.fileSize = 1612984

C15_Witness ==
    /\ ~IsNull(panel) /\ ~settings.addBase /\ settings.resolution = 128
    /\ Shown.triangles = 32258 /\ Shown.fileSize = 1612984

(* C16: the displayed print time t is the integer nearest to               *)
(* 2 (r / 128)^2, a half rounding up: t - 1/2 <= 2 r^2 / 16384 < t + 1/2   *)
(* for the resolution r of the settings, whatever the other settings are;  *)
(* it is 2 at r = 128.                                                     *)
C16_PrintTime ==
    ~IsNull(panel)
       => LET r == settings.resolution
              t == Shown.printTime
          IN /\ (2 * t - 1) * 16384 <= 4 * r * r
             /\ 4 * r * r < (2 * t + 1) * 16384
             /\ r = 128 => t = 2

C16_Witness ==
    /\ ~IsNull(panel) /\ settings.resolution = 192 /\ Shown.printTime = 5
    /\ settings.heightExaggeration = 30 /\ settings.scaleZ = 5
    /\ ~settings.addBase /\ settings.baseThickness = 15

(* the vertices of the surface, then those of the skirt *)
Vertices(m) ==
    1..(Len(m.geometry.position)
          + IF IsNull(m.sideWalls) THEN 0 ELSE Len(Val(m.sideWalls).position))

(* the height of vertex a of Vertices(m) *)
HeightAt(m, a) ==
    IF a <= Len(m.geometry.position)
    THEN m.geometry.position[a][2]
    ELSE Val(m.sideWalls).position[a - Len(m.geometry.position)][2]

(* the x and z of the surface vertices, then of the skirt vertices *)
Footprint(m) ==
    [k \in DOMAIN m.geometry.position |->
        <<m.geometry.position[k][1], m.geometry.position[k][3]>>]
       \o (IF IsNull(m.sideWalls) THEN <<>>
           ELSE [k \in DOMAIN Val(m.sideWalls).position |->
                   <<Val(m.sideWalls).position[k][1], Val(m.sideWalls).position[k][3]>>])

Topology(m) ==
    <<m.geometry.index, IF IsNull(m.sideWalls) THEN <<>> ELSE Val(m.sideWalls).index>>

IsScaling ==
    /\ viewer.mounted /\ viewer'.mounted
    /\ ~IsNull(mesh) /\ ~IsNull(mesh')
    /\ ~Degenerate(Val(viewer.heightmap))
    /\ \E k \in ScaleFactors : Val(viewer'.heightmap) = Scaled(Val(viewer.heightmap), k)
    /\ viewer'.showBase = viewer.showBase
    /\ viewer'.baseThickness = viewer.baseThickness

(* C17: when the samples of the shown grid are all multiplied by k > 0,    *)
(* the surface and the skirt keep their triangles, their vertex indices    *)
(* and the x and z of every vertex, and the new heights are the old ones   *)
(* times one common factor: either every height is 0 before and after, or *)
(* some vertex b has a height h[b] # 0 and h'[a] * h[b] = h'[b] * h[a] for *)
(* every vertex a.                                                         *)
C17_ScalingKeepsTopology ==
    [][IsScaling =>
          LET m == Val(mesh)
              n == Val(mesh')
          IN /\ Topology(n) = Topology(m)
             /\ Footprint(n) = Footprint(m)
             /\ Vertices(n) = Vertices(m)
             /\ \/ \A a \in Vertices(m) : HeightAt(m, a) = 0 /\ HeightAt(n, a) = 0
                \/ \E b \in Vertices(m) :
                      /\ HeightAt(m, b) # 0
                      /\ \A a \in Vertices(m) :
                            HeightAt(n, a) * HeightAt(m, b) = HeightAt(n, b) * HeightAt(m, a)]_vars

C17_Witness ==
    /\ viewer.mounted /\ ~IsNull(mesh) /\ viewer.showBase
    /\ Val(mesh).rows = 3 /\ Val(mesh).cols = 3
    /\ Val(viewer.heightmap) = <<<<0, 3, 0>>, <<3, 0, 0>>, <<0, 0, 3>>>>
    /\ Val(mesh).yDen = 60
    /\ Val(mesh).geometry.maxY = 180

ExportStarts == Len(exports') = Len(exports) + 1

ExportSucceeds ==
    \E e \in DOMAIN exports :
        exports[e].status = "pending" /\ exports'[e].status = "resolved"

ExportTimerRuns ==
    /\ DOMAIN exports' = DOMAIN exports
    /\ \E e \in DOMAIN exports : exports[e].timeout /\ ~exports'[e].timeout

(* C19: the step of downloadSTL that starts an export sets isExporting and *)
(* issues a request carrying the id of the terrain held at that moment;    *)
(* the step in which the export succeeds clears isExporting and sets       *)
(* progress to null; neither step, nor the export's timer, changes the     *)
(* terrain or the settings.                                                *)
C19_ExportRoundTrip ==
    [][/\ ExportStarts =>
             /\ ~IsNull(state.terrain)
             /\ state'.isExporting
             /\ lastEvent'.kind = "downloadSTL"
             /\ Val(lastEvent'.request).terrain_id = Val(state.terrain).id
             /\ exports'[Len(exports')].terrain_id = Val(state.terrain).id
             /\ state'.terrain = state.terrain /\ settings' = settings
       /\ ExportSucceeds =>
             /\ ~state'.isExporting
             /\ IsNull(state'.progress)
             /\ state'.terrain = state.terrain /\ settings' = settings
       /\ ExportTimerRuns =>
             state'.terrain = state.terrain /\ settings' = settings]_vars

C19_Witness ==
    /\ lastEvent.kind = "exportResolved"
    /\ exports[lastEvent.run].status = "resolved"
    /\ ~exports[lastEvent.run].timeout
    /\ ~state.isExporting /\ IsNull(state.progress)
    /\ ~IsNull(state.terrain)
    /\ exports[lastEvent.run].terrain_id = Val(state.terrain).id

(* C20: the skirt of a grid of R x C samples, R and C at least 2, has      *)
(* 2 * 2 * ((R - 1) + (C - 1)) triangles; for a square grid of side r that *)
(* is 4 * 2 * (r - 1), the side term of estimateTriangles(r, true).        *)
C20_SkirtTriangleCount ==
    (viewer.mounted /\ ~IsNull(mesh) /\ viewer.showBase
        /\ ~Degenerate(Val(viewer.heightmap)))
       => LET m == Val(mesh)
              skirt == Len(Val(m.sideWalls).index)
          IN /\ skirt = 2 * 2 * ((m.rows - 1) + (m.cols - 1))
             /\ m.rows = m.cols =>
                   /\ skirt = 4 * 2 * (m.rows - 1)
                   /\ skirt = EstimateTriangles(m.rows, TRUE)
                                 - 2 * EstimateTriangles(m.rows, FALSE)

C20_Witness ==
    /\ viewer.mounted /\ ~IsNull(mesh) /\ viewer.showBase
    /\ Val(mesh).rows = 3 /\ Val(mesh).cols = 3
    /\ Len(Val(Val(mesh).sideWalls).index) = 16
    /\ Val(viewer.heightmap)[2][2] = 1

(* C18: right after loadTerrain starts a run under resolution setting r,   *)
(* the progress total is the least t with 500 * t >= min(r, 64)^2; every   *)
(* total planned for a run is at most 9, and it is 9 when r is one of the  *)
(* allowed resolutions 64..256.                                            *)
C18_BatchPlan ==
    /\ lastEvent.kind = "loadTerrain" =>
          LET r == Val(lastEvent.request).resolution
              capped == IF r < 64 THEN r ELSE 64
              points == capped * capped
              total == Val(state.progress).total
          IN /\ settings.resolution = r
             /\ points <= 4096
             /\ 500 * (total - 1) < points /\ points <= 500 * total
             /\ total <= 9
             /\ r \in AllowedResolutions => total = 9
             /\ timers[lastEvent.run].totalBatches = total
    /\ \A run \in DOMAIN timers : timers[run].totalBatches <= 9
    /\ ~IsNull(state.progress) => Val(state.progress).total <= 9

C18_Witness ==
    /\ lastEvent.kind = "loadTerrain" /\ lastEvent.run = 2
    /\ Val(lastEvent.request).resolution = 256
    /\ Val(state.progress).total = 9
    /\ 1 \in DOMAIN timers /\ timers[1].totalBatches = 2 /\ timers[1].currentBatch = 2

(* the cell (i, j) whose getY the wall loops use for top vertex t (0 or 1) *)
(* of quad q (from 0): front, back, left, right, in the order of addQuad's *)
(* arguments                                                               *)
WallCell(rows, cols, q, t) ==
    IF q < cols - 1 THEN <<0, q + t>>
    ELSE IF q < 2 * (cols - 1) THEN <<rows - 1, (q - (cols - 1)) + (1 - t)>>
    ELSE IF q < 2 * (cols - 1) + (rows - 1)
         THEN <<(q - 2 * (cols - 1)) + (1 - t), 0>>
    ELSE <<(q - 2 * (cols - 1) - (rows - 1)) + t, cols - 1>>

(* the height, in 1/YDen, of the sample at grid row R - 1 - i, column j *)
FlippedHeight(heightmap, i, j) ==
    (heightmap[RowsOf(heightmap) - i][j + 1] - SetMin(Samples(heightmap))) * 60

(* C21: in a rendered grid of at least 2 x 2 samples, surface vertex       *)
(* (i, j) and every skirt top vertex built for (i, j) have the height of   *)
(* the sample at grid row R - 1 - i, column j.                             *)
C21_RowFlipEverywhere ==
    (viewer.mounted /\ ~IsNull(mesh) /\ ~Degenerate(Val(viewer.heightmap)))
       => LET m == Val(mesh)
              heightmap == Val(viewer.heightmap)
          IN /\ \A i \in 0..(m.rows - 1), j \in 0..(m.cols - 1) :
                   m.geometry.position[i * m.cols + j + 1][2] = FlippedHeight(heightmap, i, j)
             /\ ~IsNull(m.sideWalls) =>
                   \A k \in WallTops(Val(m.sideWalls)) :
                      LET cell == WallCell(m.rows, m.cols, (k - 1) \div 4, (k - 1) % 4)
                      IN Val(m.sideWalls).position[k][2]
                            = FlippedHeight(heightmap, cell[1], cell[2])

C21_Witness ==
    /\ viewer.mounted /\ ~IsNull(mesh) /\ viewer.showBase
    /\ Val(viewer.heightmap) = <<<<1, 1>>, <<0, 1>>, <<0, 0>>>>
    /\ Val(mesh).geometry.position[1][2] = 0
    /\ Val(mesh).geometry.position[5][2] = 60
    /\ Val(Val(mesh).sideWalls).position[1][2] = 0
    /\ Val(Val(mesh).sideWalls).position[6][2] = 60

(* C22: in a rendered grid of at least 2 x 2 samples with a skirt, every   *)
(* skirt top vertex built from getY(i, j) has the position (x, height, z)  *)
(* of surface vertex i * C + j.                                            *)
C22_WallTopsOnSurfaceBoundary ==
    (viewer.mounted /\ ~IsNull(mesh) /\ ~Degenerate(Val(viewer.heightmap))
        /\ ~IsNull(Val(mesh).sideWalls))
       => LET m == Val(mesh)
              walls == Val(m.sideWalls)
          IN \A k \in WallTops(walls) :
                LET cell == WallCell(m.rows, m.cols, (k - 1) \div 4, (k - 1) % 4)
                IN walls.position[k] = m.geometry.position[cell[1] * m.cols + cell[2] + 1]

(* the grid cells, as (row, column) from 1 *)
Cells(heightmap) == { <<r, c>> : r \in DOMAIN heightmap, c \in DOMAIN heightmap[1] }

IsMinimum(heightmap, v) == \A rc \in Cells(heightmap) : v <= heightmap[rc[1]][rc[2]]
IsMaximum(heightmap, v) == \A rc \in Cells(heightmap) : v >= heightmap[rc[1]][rc[2]]

(* C23: in a rendered grid of at least 2 x 2 samples, the normalized       *)
(* height y / 3 of every surface vertex lies in [0, 1]; it is 0 where the  *)
(* vertex's sample is a minimum of the grid and, when the grid is not      *)
(* flat, 1 where it is a maximum.  Heights are in 1/yDen, so 1 is          *)
(* y = 3 * yDen.                                                           *)
C23_NormalizedInUnitInterval ==
    (viewer.mounted /\ ~IsNull(mesh) /\ ~Degenerate(Val(viewer.heightmap)))
       => LET m == Val(mesh)
              heightmap == Val(viewer.heightmap)
          IN /\ m.yDen > 0
             /\ \A i \in 0..(m.rows - 1), j \in 0..(m.cols - 1) :
                   LET y == m.geometry.position[i * m.cols + j + 1][2]
                       sample == heightmap[m.rows - i][j + 1]
                   IN /\ 0 <= y /\ y <= 3 * m.yDen
                      /\ IsMinimum(heightmap, sample) => y = 0
                      /\ (IsMaximum(heightmap, sample) /\ ~IsMinimum(heightmap, sample))
                            => y = 3 * m.yDen

C23_Witness ==
    /\ viewer.mounted /\ ~IsNull(mesh)
    /\ Val(viewer.heightmap) = <<<<2, 2, 0>>, <<0, 2, 0>>>>
    /\ Val(mesh).yDen = 40
    /\ Val(mesh).geometry.position[1][2] = 0
    /\ Val(mesh).geometry.position[4][2] = 120

(* C24: in a rendered grid of at least 2 x 2 samples, the height of every  *)
(* surface vertex is its normalized height times the vertical scale 3      *)
(* times the height-exaggeration setting (held in tenths):                 *)
(* y / yDen = (sample - min) / range * 3 * heightExaggeration / 10.        *)
C24_DisplayHeightUsesExaggeration ==
    (viewer.mounted /\ ~IsNull(mesh) /\ ~Degenerate(Val(viewer.heightmap)))
       => LET m == Val(mesh)
              heightmap == Val(viewer.heightmap)
              minElev == SetMin(Samples(heightmap))
          IN \A i \in 0..(m.rows - 1), j \in 0..(m.cols - 1) :
                m.geometry.position[i * m.cols + j + 1][2] * 10 * ElevRange(heightmap)
                   = (heightmap[m.rows - i][j + 1] - minElev)
                        * VerticalScale * settings.heightExaggeration * m.yDen

(* C25: whatever the user does in the UI, isLoading and isExporting are    *)
(* never both true.                                                        *)
C25_NeverLoadingAndExporting == ~(state.isLoading /\ state.isExporting)

(* C26: whenever neither isLoading nor isExporting is set, progress is     *)
(* null.                                                                   *)
C26_ProgressOnlyWhileWorking ==
    (~state.isLoading /\ ~state.isExporting) => IsNull(state.progress)

(* C27: isLoading is true in every state in which a generateTerrain call   *)
(* issued by loadTerrain is still pending.                                 *)
C27_LoadingWhilePending == PendingRuns # {} => state.isLoading

LoadFails(run) == runs[run] = "pending" /\ runs'[run] = "rejected"

ExportFails(e) == exports[e].status = "pending" /\ exports'[e].status = "rejected"

(* C28: the step in which a generateTerrain or exportSTL call rejects      *)
(* leaves the terrain as it was, and that terrain is the one held when the *)
(* operation started: after a failed export it has the id the export was   *)
(* started with, and after a failed load run it is not the result of a run *)
(* started later.                                                          *)
C28_FailureKeepsTerrain ==
    [][/\ \A run \in DOMAIN runs :
             LoadFails(run) =>
                /\ state'.terrain = state.terrain
                /\ IsNull(state'.terrain) \/ Val(state'.terrain).id < run
       /\ \A e \in DOMAIN exports :
             ExportFails(e) =>
                /\ state'.terrain = state.terrain
                /\ ~IsNull(state'.terrain)
                /\ Val(state'.terrain).id = exports[e].terrain_id]_vars

TimerTicks(run) ==
    /\ run \in DOMAIN timers /\ run \in DOMAIN timers'
    /\ timers'[run].currentBatch # timers[run].currentBatch

(* C29: the step in which a run's generateTerrain call settles, resolved   *)
(* or rejected, removes that run's timer, and a run that has settled has   *)
(* no timer and its timer never fires again.                               *)
C29_TimerStoppedOnSettle ==
    [][\A run \in DOMAIN runs :
          /\ (runs[run] = "pending" /\ runs'[run] # "pending") => run \notin DOMAIN timers'
          /\ runs[run] # "pending" =>
                /\ run \notin DOMAIN timers
                /\ ~TimerTicks(run)
                /\ ~(lastEvent' # lastEvent /\ lastEvent'.kind = "progressTick"
                        /\ lastEvent'.run = run)]_vars

C29_Witness ==
    /\ lastEvent.kind = "loadRejected" /\ lastEvent.run = 1
    /\ runs = <<"rejected", "pending">>
    /\ DOMAIN timers = {2}
    /\ timers[2].currentBatch = 1
    /\ IsNull(state.progress)

(* C30: whenever progress is non-null, 0 <= current <= total and           *)
(* total >= 1, so the overlay's percentage is within 0..100 and its        *)
(* remaining time is not negative; this holds also after a timer has       *)
(* ticked more often than its run has batches.                             *)
C30_ProgressWithinBounds ==
    ~IsNull(state.progress) =>
       LET progress == Val(state.progress)
       IN /\ 0 <= progress.current
          /\ progress.current <= progress.total
          /\ progress.total >= 1
          /\ Percentage(progress) \in 0..100
          /\ RemainingSeconds(progress) >= 0

C30_Witness ==
    /\ lastEvent.kind = "idleTick"
    /\ ~IsNull(state.progress)
    /\ Val(state.progress).current = 1 /\ Val(state.progress).total = 1
    /\ timers[lastEvent.run].currentBatch = 2
    /\ Percentage(Val(state.progress)) = 100

====
